---- MODULE Spec2Model ----
(***************************************************************************)
(* Model of physrisk/kernel/financial_model.py: FinancialModel             *)
(* .get_financial_impacts, DefaultAggregator and uncorrelated_samples.     *)
(*                                                                         *)
(* Numbers.  Monetary amounts and impact samples are integers.  A          *)
(* percentile value and a mean are exact rationals <<num, den>>; <<0, 0>>  *)
(* stands for NaN (numpy's result on an empty vector).  Percentile levels  *)
(* are kept in tenths of a percent (97.5 is 975).                          *)
(***************************************************************************)
EXTENDS Integers, Sequences, FiniteSets, TLC

\* ------------------------------------------------------------------ bounds
NumAssets == 2      \* assets the caller can put in a portfolio: 1..NumAssets
MaxSims == 2        \* largest sims argument tried (the smallest is -1)
MaxKeys == 2        \* longest key list a custom aggregator returns

\* --------------------------------------------------------------- constants
Seed == 111         \* np.random.MT19937(seed=111)

Assets == 1..NumAssets
SimsArgs == (-1)..MaxSims
Years == {2050}
Currencies == {"EUR"}
Percentiles == <<0, 100, 200, 400, 600, 800, 900, 950, 975, 990, 995, 999>>
NaN == <<0, 0>>

\* ------------------------------------------------------- sequence helpers
Range(s) == {s[i] : i \in DOMAIN s}

SeqsUpTo(S, n) == UNION {[1..m -> S] : m \in 0..n}

\* The sequences of distinct elements of S: the orders a portfolio can have.
DistinctSeqs(S) == {s \in SeqsUpTo(S, Cardinality(S)) :
                      \A i, j \in DOMAIN s : i # j => s[i] # s[j]}

RECURSIVE SumSeq(_)
SumSeq(s) == IF s = <<>> THEN 0 ELSE Head(s) + SumSeq(Tail(s))

RECURSIVE Insert(_, _)
Insert(x, s) == IF s = <<>> THEN <<x>>
                ELSE IF x <= Head(s) THEN <<x>> \o s
                ELSE <<Head(s)>> \o Insert(x, Tail(s))

RECURSIVE Sorted(_)
Sorted(s) == IF s = <<>> THEN <<>> ELSE Insert(Head(s), Sorted(Tail(s)))

\* np.zeros(n)
Zeros(n) == [i \in 1..n |-> 0]

\* element-wise a + b of two vectors of one length
VecAdd(a, b) == [i \in DOMAIN a |-> a[i] + b[i]]

\* ------------------------------------------------ collaborators (stubs)
\* Impact Source: calculate_impacts(assets, hazard_model, vulnerability_models,
\* scenario, year).  Deterministic; one result per asset, in portfolio order.
\* Odd assets carry a damage impact, even assets a disruption impact; the
\* hazard class of asset a is named "Flood" or "root".
ImpactOf(a) ==
    [impact_type |-> IF a % 2 = 1 THEN "damage" ELSE "disruption",
     event_type  |-> IF a % 3 = 2 THEN "root" ELSE "Flood",
     curve       |-> a]

calculate_impacts(as) == [i \in DOMAIN as |-> [asset |-> as[i], impact |-> ImpactOf(as[i])]]

\* ExceedanceCurve.get_samples(uniforms): a pure function of the draws.  A
\* uniform draw is one of the levels 0..6; curve c is a step curve.
get_samples(c, uniforms) ==
    [i \in DOMAIN uniforms |-> IF uniforms[i] <= 2 THEN 4 + c ELSE c % 2]

\* FinancialDataProvider.get_asset_value(asset, currency)
get_asset_value(a, cur) == 100 * a

\* FinancialDataProvider.get_asset_aggregate_cashflows(asset, start, end, currency)
get_asset_aggregate_cashflows(a, start, end, cur) == 10 * a + (start[1] % 7)

\* np.random.Generator(np.random.MT19937(seed)): a stream fixed by its seed;
\* Uniform(seed, i) is the i-th draw of the stream.
Uniform(seed, i) == (seed * i + i * i) % 7

NewGenerator(seed) == [seed |-> seed, pos |-> 0]

\* generator.uniform(size=n), n >= 0: the next n draws of the stream
UniformDraws(g, n) == [i \in 1..n |-> Uniform(g.seed, g.pos + i)]

Advance(g, n) == [g EXCEPT !.pos = g.pos + n]

\* ------------------------------------------------------ aggregation keys
\* DefaultAggregator.get_aggregation_keys: [impact.event_type.__name__, "root"]
DefaultKeys(a, impact) == <<impact.event_type, "root">>

\* A caller-supplied Aggregator: a pure function of (asset, impact).  It
\* returns its pattern with "own" replaced by the asset's own key, or no key
\* at all for a non-damage impact when it classifies damage only.  Patterns
\* may repeat a key and may be empty.
OwnKeys == <<"own1", "own2", "own3", "own4", "own5", "own6">>

KeyPatterns == SeqsUpTo({"shared", "own"}, MaxKeys)

CustomKeys(agg, a, impact) ==
    IF agg.damage_only /\ impact.impact_type # "damage" THEN <<>>
    ELSE [i \in DOMAIN agg.pattern |->
            IF agg.pattern[i] = "own" THEN OwnKeys[a] ELSE "shared"]

DefaultAggregator == [kind |-> "default", pattern |-> <<>>, damage_only |-> FALSE]

CustomAggregators == [kind : {"custom"}, pattern : KeyPatterns, damage_only : BOOLEAN]

\* the aggregator argument: None (the default policy is used) or a custom one
AggregatorArgs == {DefaultAggregator} \cup CustomAggregators

get_aggregation_keys(agg, a, impact) ==
    IF agg.kind = "default" THEN DefaultKeys(a, impact) ELSE CustomKeys(agg, a, impact)

\* ------------------------------------------------------------- exposure
\* Variant that ignores the impact type and always asks for the asset value.
ExposureCallValueOnly(a, impact, yr, cur) ==
    [op |-> "get_asset_value", asset |-> a, start |-> <<0, 0, 0>>,
     end |-> <<0, 0, 0>>, currency |-> cur]

\* Lines 80-85: the one Exposure Valuer call made for an asset.
ExposureCall(a, impact, yr, cur) ==
    IF impact.impact_type = "damage"
    THEN [op |-> "get_asset_value", asset |-> a, start |-> <<0, 0, 0>>,
          end |-> <<0, 0, 0>>, currency |-> cur]
    ELSE [op |-> "get_asset_aggregate_cashflows", asset |-> a,
          start |-> <<yr, 1, 1>>, end |-> <<yr, 12, 31>>, currency |-> cur]

\* what the data provider returns for that call
ExposureValue(call) ==
    IF call.op = "get_asset_value"
    THEN get_asset_value(call.asset, call.currency)
    ELSE get_asset_aggregate_cashflows(call.asset, call.start, call.end, call.currency)

\* FinancialModel.uncorrelated_samples(impact, samples, generator)
uncorrelated_samples(impact, samples, g) ==
    get_samples(impact.curve, UniformDraws(g, samples))

\* line 89: loss = trans * samples
Scale(trans, samples) == [i \in DOMAIN samples |-> trans * samples[i]]

\* --------------------------------------------------------------- pools
\* aggregation_pools is a dict, kept in insertion order: a sequence of
\* [key, loss] entries with distinct keys.
PoolKeys(pools) == {pools[i].key : i \in DOMAIN pools}

PoolVector(pools, k) == pools[CHOOSE i \in DOMAIN pools : pools[i].key = k].loss

\* lines 92-94 for one key
AddToPool(pools, k, loss, n) ==
    LET with == IF k \in PoolKeys(pools) THEN pools
                ELSE Append(pools, [key |-> k, loss |-> Zeros(n)])
    IN [i \in DOMAIN with |->
          IF with[i].key = k
          THEN [key |-> k, loss |-> VecAdd(with[i].loss, loss)]
          ELSE with[i]]

\* lines 91-94: for key in keys
RECURSIVE AccumulateLoop(_, _, _, _)
AccumulateLoop(pools, keys, loss, n) ==
    IF keys = <<>> THEN pools
    ELSE AccumulateLoop(AddToPool(pools, Head(keys), loss, n), Tail(keys), loss, n)

\* Variant that files an asset without keys under "unclassified".
AccumulateUnclassified(pools, keys, loss, n) ==
    AccumulateLoop(pools, IF keys = <<>> THEN <<"unclassified">> ELSE keys, loss, n)

Accumulate(pools, keys, loss, n) == AccumulateLoop(pools, keys, loss, n)

\* ----------------------------------------------------------- statistics
\* np.percentile(loss, p) with linear interpolation, p in tenths of a percent,
\* as the rational <<num, 1000>>; NaN on an empty vector.
PercentileValue(loss, p) ==
    IF Len(loss) = 0 THEN NaN
    ELSE LET s  == Sorted(loss)
             v  == (Len(loss) - 1) * p
             lo == v \div 1000
             hi == IF lo + 1 < Len(loss) THEN lo + 1 ELSE lo
         IN <<1000 * s[lo + 1] + (v % 1000) * (s[hi + 1] - s[lo + 1]), 1000>>

np_percentile(loss, ps) == [i \in DOMAIN ps |-> PercentileValue(loss, ps[i])]

\* np.mean(loss) as the rational <<sum, n>>; NaN (0/0) on an empty vector
np_mean(loss) == <<SumSeq(loss), Len(loss)>>

\* lines 99-103
Measure(k, loss) ==
    [key |-> k, percentiles |-> Percentiles,
     percentile_values |-> np_percentile(loss, Percentiles),
     mean |-> np_mean(loss)]

\* ---------------------------------------------------------------- state
VARIABLES
    unpriced,           \* world: the assets the data provider cannot price
    aggregator,         \* world: the aggregator the caller passes to every call
    emptyPercentile,    \* world: np.percentile on an empty vector, "nan" or "IndexError"
    pc,                 \* "idle", "running", "returned" or "raised"
    assets, sims, year, currency,   \* the other arguments of the call
    aggregation_pools,  \* line 67
    results,            \* line 69
    rg,                 \* line 72
    idx,                \* position of the loop of line 74 in results
    measures,           \* line 96
    returned,           \* the mapping handed to the caller (line 105)
    error,              \* the exception that left the call, or "none"
    impactCalls,        \* calls of the Impact Source made by this call
    valuerLog,          \* calls of the data provider made by this call, in order
    rngCalls,           \* calls of generator.uniform made by this call
    contributions,      \* per processed asset: its keys, multiplier, samples and loss
    prev                \* outcome of the call before, kept when this call repeats its arguments

vars == <<unpriced, aggregator, emptyPercentile, pc, assets, sims, year, currency,
          aggregation_pools, results, rg, idx, measures, returned, error,
          impactCalls, valuerLog, rngCalls, contributions, prev>>

world == <<unpriced, aggregator, emptyPercentile>>
arguments == <<assets, sims, year, currency>>

Outcome == [pc |-> pc, error |-> error, returned |-> returned]

Init ==
    /\ unpriced \in {{}} \cup {{a} : a \in Assets}
    /\ emptyPercentile \in {"nan", "IndexError"}
    /\ pc = "idle"
    /\ aggregator \in AggregatorArgs
    /\ assets = <<>> /\ sims = 0 /\ year = 0 /\ currency = ""
    /\ aggregation_pools = <<>>
    /\ results = <<>>
    /\ rg = NewGenerator(Seed)
    /\ idx = 1
    /\ measures = <<>>
    /\ returned = <<>>
    /\ error = "none"
    /\ impactCalls = 0
    /\ valuerLog = <<>>
    /\ rngCalls = 0
    /\ contributions = <<>>
    /\ prev = [same |-> FALSE, outcome |-> [pc |-> "idle", error |-> "none", returned |-> <<>>]]

\* Variant that keeps one generator across calls instead of seeding anew.
CarriedGenerator == rg

\* line 72: the generator a call samples from
RunGenerator == NewGenerator(Seed)

\* Lines 52-72: entry of get_financial_impacts.  No argument is checked.
Call ==
    /\ pc \in {"idle", "returned", "raised"}
    /\ \E as \in DistinctSeqs(Assets), n \in SimsArgs, y \in Years, c \in Currencies :
         /\ assets' = as /\ sims' = n /\ year' = y /\ currency' = c
         /\ results' = calculate_impacts(as)
         /\ prev' = [same |-> (pc # "idle" /\ <<as, n, y, c>> = arguments),
                     outcome |-> IF pc # "idle" /\ <<as, n, y, c>> = arguments
                                 THEN Outcome
                                 ELSE [pc |-> "idle", error |-> "none", returned |-> <<>>]]
    /\ aggregation_pools' = <<>>
    /\ impactCalls' = 1
    /\ rg' = RunGenerator
    /\ idx' = 1
    /\ measures' = <<>>
    /\ returned' = <<>>
    /\ error' = "none"
    /\ valuerLog' = <<>>
    /\ rngCalls' = 0
    /\ contributions' = <<>>
    /\ pc' = "running"
    /\ UNCHANGED world

\* the asset of the iteration at hand
CurAsset == results[idx].asset
CurImpact == results[idx].impact
CurKeys == get_aggregation_keys(aggregator, CurAsset, CurImpact)
CurCall == ExposureCall(CurAsset, CurImpact, year, currency)

InLoop == pc = "running" /\ idx <= Len(results)

\* Lines 74-94 for one asset: keys, exposure, samples, accumulation.
LoopIter ==
    /\ InLoop
    /\ CurAsset \notin unpriced
    /\ sims >= 0
    /\ LET trans   == ExposureValue(CurCall)
           samples == uncorrelated_samples(CurImpact, sims, rg)
           loss    == Scale(trans, samples)
       IN /\ valuerLog' = Append(valuerLog, CurCall)
          /\ rngCalls' = rngCalls + 1
          /\ rg' = Advance(rg, sims)
          /\ aggregation_pools' = Accumulate(aggregation_pools, CurKeys, loss, sims)
          /\ contributions' = Append(contributions,
                 [asset |-> CurAsset, keys |-> CurKeys, trans |-> trans,
                  samples |-> samples, loss |-> loss])
    /\ idx' = idx + 1
    /\ UNCHANGED <<world, pc, arguments, results, measures, returned, error,
                   impactCalls, prev>>

\* Variant that swallows the data provider's failure and skips the asset.
ValuerRaisesAsZero ==
    /\ InLoop
    /\ CurAsset \in unpriced
    /\ valuerLog' = Append(valuerLog, CurCall)
    /\ idx' = idx + 1
    /\ UNCHANGED <<world, pc, arguments, results, measures, returned, error,
                   impactCalls, prev, rngCalls, rg, aggregation_pools, contributions>>

\* Lines 80-85 when the data provider raises: nothing catches it.
ValuerRaises ==
    /\ InLoop
    /\ CurAsset \in unpriced
    /\ valuerLog' = Append(valuerLog, CurCall)
    /\ pc' = "raised"
    /\ error' = "ValuerError"
    /\ UNCHANGED <<world, arguments, results, measures, returned, impactCalls, prev,
                   rngCalls, rg, aggregation_pools, contributions, idx>>

\* Line 89 with sims < 0: generator.uniform(size=sims) raises ValueError,
\* after the data provider was called for the first asset.
SamplerRaises ==
    /\ InLoop
    /\ CurAsset \notin unpriced
    /\ sims < 0
    /\ valuerLog' = Append(valuerLog, CurCall)
    /\ rngCalls' = rngCalls + 1
    /\ pc' = "raised"
    /\ error' = "ValueError"
    /\ UNCHANGED <<world, arguments, results, measures, returned, impactCalls, prev,
                   rg, aggregation_pools, contributions, idx>>

\* Variant that lets the summary start before the loop has ended.
AccumulationDoneEarly == TRUE

\* line 74: the loop over results has ended
AccumulationDone == idx > Len(results)

InSummary == pc = "running" /\ AccumulationDone

\* Lines 98-103 for the next pool, in the dict's order.
SummarizeKey ==
    /\ InSummary
    /\ Len(measures) < Len(aggregation_pools)
    /\ ~(sims = 0 /\ emptyPercentile = "IndexError")
    /\ LET p == aggregation_pools[Len(measures) + 1]
       IN measures' = Append(measures, Measure(p.key, p.loss))
    /\ UNCHANGED <<world, pc, arguments, aggregation_pools, results, rg, idx, returned,
                   error, impactCalls, valuerLog, rngCalls, contributions, prev>>

\* Line 101 on a pool of length 0, where this numpy raises IndexError.
SummaryRaises ==
    /\ InSummary
    /\ Len(measures) < Len(aggregation_pools)
    /\ sims = 0 /\ emptyPercentile = "IndexError"
    /\ pc' = "raised"
    /\ error' = "IndexError"
    /\ UNCHANGED <<world, arguments, aggregation_pools, results, rg, idx, measures,
                   returned, impactCalls, valuerLog, rngCalls, contributions, prev>>

\* line 105
Return ==
    /\ InSummary
    /\ Len(measures) = Len(aggregation_pools)
    /\ returned' = measures
    /\ pc' = "returned"
    /\ UNCHANGED <<world, arguments, aggregation_pools, results, rg, idx, measures,
                   error, impactCalls, valuerLog, rngCalls, contributions, prev>>

Next ==
    \/ Call
    \/ LoopIter
    \/ ValuerRaises
    \/ SamplerRaises
    \/ SummarizeKey
    \/ SummaryRaises
    \/ Return

Spec == Init /\ [][Next]_vars

\* =============================================================== claims
ContributedKeys == UNION {Range(contributions[i].keys) : i \in DOMAIN contributions}

\* element-wise sum of the loss vectors of the contributions numbered in I
RECURSIVE LossSum(_, _)
LossSum(I, n) ==
    IF I = {} THEN Zeros(n)
    ELSE LET i == CHOOSE i \in I : TRUE
         IN VecAdd(LossSum(I \ {i}, n), contributions[i].loss)

\* the contributions whose key list contains k
Members(k) == {i \in DOMAIN contributions : k \in Range(contributions[i].keys)}

RECURSIVE Dedup(_)
Dedup(keys) ==
    IF keys = <<>> THEN <<>>
    ELSE LET front == Dedup(SubSeq(keys, 1, Len(keys) - 1))
             last  == keys[Len(keys)]
         IN IF last \in Range(front) THEN front ELSE Append(front, last)

\* the pools that result from the contributions cs with each key list de-duplicated
RECURSIVE PoolsFromDedup(_, _)
PoolsFromDedup(cs, n) ==
    IF cs = <<>> THEN <<>>
    ELSE LET c == cs[Len(cs)]
         IN AccumulateLoop(PoolsFromDedup(SubSeq(cs, 1, Len(cs) - 1), n),
                           Dedup(c.keys), c.loss, n)

\* C1: every pool is the element-wise sum of the loss vectors of exactly the
\* assets whose key list contains its key, each asset's one loss vector
\* counted once; and there is a pool for exactly the keys some asset has.
C1_PoolIsSumOfMemberLosses ==
    pc \in {"running", "returned"} =>
        /\ PoolKeys(aggregation_pools) = ContributedKeys
        /\ \A k \in PoolKeys(aggregation_pools) :
              PoolVector(aggregation_pools, k) = LossSum(Members(k), sims)

\* C2: a key repeated in an asset's key list counts once: the pools are those
\* the de-duplicated key lists give.
C2_DuplicateKeysCountOnce ==
    pc \in {"running", "returned"} =>
        aggregation_pools = PoolsFromDedup(contributions, sims)

\* the Exposure Valuer call the impact type of results[i] asks for
ExpectedValuerCall(i) ==
    LET r == results[i]
    IN IF r.impact.impact_type = "damage"
       THEN [op |-> "get_asset_value", asset |-> r.asset, start |-> <<0, 0, 0>>,
             end |-> <<0, 0, 0>>, currency |-> currency]
       ELSE IF r.impact.impact_type = "disruption"
       THEN [op |-> "get_asset_aggregate_cashflows", asset |-> r.asset,
             start |-> <<year, 1, 1>>, end |-> <<year, 12, 31>>, currency |-> currency]
       ELSE [op |-> "none", asset |-> r.asset, start |-> <<0, 0, 0>>,
             end |-> <<0, 0, 0>>, currency |-> currency]

\* the assets the loop has entered so far
EnteredAssets ==
    IF pc = "raised" /\ error \in {"ValuerError", "ValueError"} THEN idx ELSE idx - 1

\* C3: each asset the loop has entered caused exactly one Exposure Valuer call:
\* get_asset_value(asset, currency) for a damage impact,
\* get_asset_aggregate_cashflows(asset, 1 Jan year, 31 Dec year, currency) for a
\* disruption impact; and the value returned multiplies each of the asset's
\* sims samples.
C3_OneValuerCallPerAsset ==
    pc # "idle" =>
        /\ Len(valuerLog) = EnteredAssets
        /\ \A i \in DOMAIN valuerLog : valuerLog[i] = ExpectedValuerCall(i)
        /\ \A i \in DOMAIN contributions :
              LET c == contributions[i]
              IN /\ c.asset = results[i].asset
                 /\ c.trans = ExposureValue(valuerLog[i])
                 /\ Len(c.samples) = sims /\ Len(c.loss) = sims
                 /\ \A j \in 1..sims : c.loss[j] = c.trans * c.samples[j]

C3_Witness ==
    /\ pc = "returned" /\ sims >= 2 /\ Len(contributions) >= 2
    /\ \E i, j \in DOMAIN valuerLog :
          /\ valuerLog[i].op = "get_asset_value"
          /\ valuerLog[j].op = "get_asset_aggregate_cashflows"
          /\ valuerLog[j].start = <<year, 1, 1>>

\* C4: a call with sims <= 0 is rejected at entry: it raises, and it has called
\* neither the Impact Source nor the Exposure Valuer nor the random source.
C4_NonPositiveSimsRejectedAtEntry ==
    (pc # "idle" /\ sims <= 0) =>
        /\ pc = "raised"
        /\ impactCalls = 0 /\ valuerLog = <<>> /\ rngCalls = 0
        /\ returned = <<>>

\* C5: once the Exposure Valuer has failed for an asset, the call has raised
\* that failure: nothing is returned, the failing asset is the last one the
\* loop entered, and it has contributed to no pool.
C5_ValuerFailureAborts ==
    /\ \A i \in DOMAIN valuerLog :
          valuerLog[i].asset \in unpriced =>
              /\ pc = "raised" /\ error = "ValuerError"
              /\ returned = <<>> /\ measures = <<>>
              /\ i = Len(valuerLog) /\ idx = i
              /\ \A j \in DOMAIN contributions : contributions[j].asset # valuerLog[i].asset
    /\ pc = "returned" => \A i \in DOMAIN results : results[i].asset \notin unpriced

C5_Witness ==
    /\ pc = "raised" /\ error = "ValuerError"
    /\ Len(contributions) >= 1 /\ aggregation_pools # <<>>
    /\ results[idx].asset \in unpriced

\* the pools a call with the arguments at hand builds, started from an empty
\* dict and a generator freshly seeded
RECURSIVE PoolsOfRun(_, _, _)
PoolsOfRun(i, pools, g) ==
    IF i > Len(results) THEN pools
    ELSE LET r     == results[i]
             trans == ExposureValue(ExpectedValuerCall(i))
             loss  == Scale(trans, get_samples(r.impact.curve, UniformDraws(g, sims)))
         IN PoolsOfRun(i + 1,
                       AccumulateLoop(pools, get_aggregation_keys(aggregator, r.asset, r.impact),
                                      loss, sims),
                       [seed |-> g.seed, pos |-> g.pos + sims])

MeasuresOfRun ==
    LET p == PoolsOfRun(1, <<>>, [seed |-> Seed, pos |-> 0])
    IN [j \in DOMAIN p |-> Measure(p[j].key, p[j].loss)]

\* C6: a call that repeats the arguments of the call before it ends as that
\* one did, with the same mapping; and what any call returns is fixed by its
\* arguments alone: the statistics of pools built from empty with a generator
\* seeded afresh.
C6_RunsAreReproducible ==
    /\ (prev.same /\ pc \in {"returned", "raised"}) => Outcome = prev.outcome
    /\ pc = "returned" => returned = MeasuresOfRun

C6_Witness ==
    /\ prev.same /\ pc = "returned"
    /\ sims >= 2 /\ Len(contributions) >= 2 /\ Len(returned) >= 2

\* C7: a caller can have a run sample from another seed than the fixed one:
\* after a call has ended, the same arguments can be passed again in a call
\* whose generator is seeded differently.
C7_CallerCanChooseSeed ==
    pc \in {"returned", "raised"} => ENABLED (Call /\ prev'.same /\ rg'.seed # Seed)

\* C8: under the default policy the root pool is the sum of the loss vectors of
\* all processed assets, the pool of every hazard name is the sum of the loss
\* vectors of the assets with that hazard, and the root pool is the sum of the
\* per-hazard pools.
HazardNames == {contributions[i].keys[1] : i \in DOMAIN contributions}

RECURSIVE VecSum(_, _)
VecSum(vs, n) == IF vs = <<>> THEN Zeros(n) ELSE VecAdd(VecSum(Tail(vs), n), Head(vs))

RECURSIVE SetToSeq(_)
SetToSeq(S) == IF S = {} THEN <<>>
               ELSE LET x == CHOOSE x \in S : TRUE IN <<x>> \o SetToSeq(S \ {x})

C8_DefaultPolicyRootAndHazardOnce ==
    (aggregator.kind = "default" /\ pc \in {"running", "returned"} /\ contributions # <<>>) =>
        /\ PoolVector(aggregation_pools, "root") = LossSum(DOMAIN contributions, sims)
        /\ \A h \in HazardNames :
              PoolVector(aggregation_pools, h) =
                  LossSum({i \in DOMAIN contributions : results[i].impact.event_type = h}, sims)
        /\ PoolVector(aggregation_pools, "root") =
              VecSum([i \in 1..Cardinality(HazardNames) |->
                         PoolVector(aggregation_pools, SetToSeq(HazardNames)[i])], sims)

\* C9: statistics exist only once every asset has been processed; each pool is
\* summarized once, in the dict's order, from its final vector; and the mapping
\* returned has an entry for exactly the keys that received a contribution.
C9_StatisticsAfterAccumulation ==
    /\ (pc \in {"running", "returned"} /\ measures # <<>>) => idx > Len(results)
    /\ pc \in {"running", "returned"} =>
          /\ Len(measures) <= Len(aggregation_pools)
          /\ \A j \in DOMAIN measures :
                measures[j] = Measure(aggregation_pools[j].key, aggregation_pools[j].loss)
          /\ \A i, j \in DOMAIN measures : measures[i].key = measures[j].key => i = j
    /\ pc = "returned" =>
          /\ returned = measures
          /\ {returned[j].key : j \in DOMAIN returned} = ContributedKeys

C9_Witness ==
    /\ pc = "returned" /\ Len(returned) >= 3 /\ Len(results) >= 2 /\ sims >= 2

\* C10: processing an asset for which the policy returns no key changes no
\* pool and creates none, and the call goes on to the next asset.
C10_EmptyKeyListStep ==
    (pc = "running" /\ idx <= Len(results) /\ idx' = idx + 1 /\ CurKeys = <<>>) =>
        /\ aggregation_pools' = aggregation_pools
        /\ pc' = "running" /\ error' = "none"

C10_EmptyKeyListIsSkipped == [][C10_EmptyKeyListStep]_vars

C10_Witness ==
    /\ pc = "returned" /\ returned # <<>> /\ sims >= 1
    /\ \E i, j \in DOMAIN contributions :
          /\ i < j
          /\ contributions[i].keys # <<>>
          /\ contributions[j].keys = <<>>

====
